---- MODULE Spec2Model ----
(***************************************************************************)
(* Model of src/__main__.py, dump_markdown_from_json_lines(): the loaded   *)
(* tables (Users, Posts, PostHistory), the enrichment loops (owners,       *)
(* questions, answers, users, post history) and the page and index         *)
(* rendering.  One action per loop iteration or straight-line block; a     *)
(* Python exception that nothing catches is the transition to "aborted".   *)
(*                                                                         *)
(* Strings are sequences of one-character strings.  An optional attribute  *)
(* of a row (hasattr) is a set with at most one element.  Object           *)
(* references (question.AcceptedAnswer, answer.Question, question.Answers) *)
(* are the Ids of the referenced rows: a table is a dict keyed by Id, so   *)
(* no two rows of a table share an Id.                                     *)
(***************************************************************************)
EXTENDS Integers, Sequences, FiniteSets, TLC

VARIABLES
    pc,             \* position in dump_markdown_from_json_lines
    idx,            \* position of the running loop in the sequence it iterates
    dump,           \* data/main: Posts.jsonl and PostsWithDeleted.jsonl, {} when absent
    AllUsers,       \* load_table('Users'): the set of user Ids (keys)
    Posts,          \* load_table('Posts').values(): rows in table order
    PostHistory,    \* the lines of PostHistory.jsonl, in file order
    Users,          \* Users: Ids of the users referenced as owners
    Owner,          \* post.Owner, by post Id
    BodySource,     \* post.BodySource, by post Id
    QAnswers,       \* question.Answers, by question Id
    Slug,           \* question.Slug, by question Id
    Path,           \* question.Path / answer.Path, by post Id
    AcceptedAnswer, \* question.AcceptedAnswer, by question Id (a set: {} is None)
    Tags,           \* Tags: tag -> list of question Ids
    Question,       \* answer.Question, by answer Id
    IsAccepted,     \* answer.IsAccepted, by answer Id
    UserSlug,       \* user.Slug, by user Id
    UserUrl,        \* user.Url, by user Id
    errorLog,       \* logger.error calls so far
    files,          \* the files written so far: path -> content
    fault,          \* the uncaught exception, <<>> when there is none
    title,          \* slug rule alone: the text it is given
    slugId,         \* slug rule alone: the Id of the fallback
    slugKind,       \* slug rule alone: "post" or "user"
    slug1,          \* slug rule alone: the slug of title
    slug2           \* slug rule alone: the slug of slug1

vars == <<pc, idx, dump, AllUsers, Posts, PostHistory, Users, Owner, BodySource,
          QAnswers, Slug, Path, AcceptedAnswer, Tags, Question, IsAccepted,
          UserSlug, UserUrl, errorLog, files, fault,
          title, slugId, slugKind, slug1, slug2>>

pipelineVars == <<pc, idx, dump, AllUsers, Posts, PostHistory, Users, Owner, BodySource,
          QAnswers, Slug, Path, AcceptedAnswer, Tags, Question, IsAccepted,
          UserSlug, UserUrl, errorLog, files, fault>>

slugVars == <<title, slugId, slugKind, slug1, slug2>>

(***************************************************************************)
(* Bounds of the explored inputs.                                          *)
(***************************************************************************)
MaxScore == 1       \* Score ranges over 0..MaxScore
MaxHist == 2        \* PostHistory.jsonl has at most MaxHist lines
MaxRep == 81        \* a title repeats one character at most MaxRep times
MaxTail == 1        \* ... followed by at most MaxTail further characters
PostIds == 1 .. 3   \* the Ids a Posts row or a foreign key may carry

(***************************************************************************)
(* Program constants.                                                      *)
(***************************************************************************)
QUESTION == 1
ANSWER == 2
TitleCut == 80
COMMUNITY == -1

CR == "\r"
LF == "\n"

Range(s) == {s[i] : i \in DOMAIN s}

(***************************************************************************)
(* String operations of the Python standard library, as the code uses them.*)
(***************************************************************************)
Take(s, n) == SubSeq(s, 1, IF Len(s) < n THEN Len(s) ELSE n)

Drop(s, n) == SubSeq(s, n + 1, Len(s))

HasPrefix(s, p) == Len(p) <= Len(s) /\ SubSeq(s, 1, Len(p)) = p

\* sub in s: the `in` operator on two strings
Contains(sub, s) == \E i \in 0 .. Len(s) - Len(sub) : SubSeq(s, i + 1, i + Len(sub)) = sub

\* s.replace(old, new), old non-empty: left to right, non-overlapping
RECURSIVE Replace(_, _, _)
Replace(s, old, new) ==
    IF s = <<>> THEN <<>>
    ELSE IF HasPrefix(s, old) THEN new \o Replace(Drop(s, Len(old)), old, new)
    ELSE <<Head(s)>> \o Replace(Tail(s), old, new)

\* revision.Text.replace('\r\n', '\n').replace('\r', '\n')
NormalizeNewlinesSwapped(text) == Replace(Replace(text, <<CR>>, <<LF>>), <<CR, LF>>, <<LF>>)

NormalizeNewlines(text) == Replace(Replace(text, <<CR, LF>>, <<LF>>), <<CR>>, <<LF>>)

AsciiUpper == <<"A", "B", "C", "D", "E", "F", "G", "H", "I", "J", "K", "L", "M",
                "N", "O", "P", "Q", "R", "S", "T", "U", "V", "W", "X", "Y", "Z">>

AsciiLower == <<"a", "b", "c", "d", "e", "f", "g", "h", "i", "j", "k", "l", "m",
                "n", "o", "p", "q", "r", "s", "t", "u", "v", "w", "x", "y", "z">>

Digits == <<"0", "1", "2", "3", "4", "5", "6", "7", "8", "9">>

\* the character class [a-z0-9] of the slug pattern
SlugClass == Range(AsciiLower) \cup Range(Digits)

\* str.lower() of one character.  U+0130 (capital I with dot above) is the one
\* character whose lowercase is two characters, "i" and U+0307 (combining dot
\* above); U+212A (Kelvin sign) lowercases to ASCII "k".  A character without
\* case, or already lowercase, is unchanged.
LowerChar(c) ==
    IF c \in Range(AsciiUpper)
    THEN <<AsciiLower[CHOOSE i \in DOMAIN AsciiUpper : AsciiUpper[i] = c]>>
    ELSE IF c = "U+0130" THEN <<"i", "U+0307">>
    ELSE IF c = "U+212A" THEN <<"k">>
    ELSE <<c>>

\* str.lower()
RECURSIVE Lower(_)
Lower(s) == IF s = <<>> THEN <<>> ELSE LowerChar(Head(s)) \o Lower(Tail(s))

\* s with its leading characters outside [a-z0-9] removed
RECURSIVE SkipRun(_)
SkipRun(s) == IF s = <<>> \/ Head(s) \in SlugClass THEN s ELSE SkipRun(Tail(s))

\* re.sub('[^a-z0-9]+', '-', s)
RECURSIVE ReSub(_)
ReSub(s) ==
    IF s = <<>> THEN <<>>
    ELSE IF Head(s) \in SlugClass THEN <<Head(s)>> \o ReSub(Tail(s))
    ELSE <<"-">> \o ReSub(SkipRun(s))

RECURSIVE LStrip(_)
LStrip(s) == IF s # <<>> /\ Head(s) = "-" THEN LStrip(Tail(s)) ELSE s

RECURSIVE RStrip(_)
RStrip(s) == IF s # <<>> /\ s[Len(s)] = "-" THEN RStrip(SubSeq(s, 1, Len(s) - 1)) ELSE s

\* s.strip('-')
Strip(s) == RStrip(LStrip(s))

\* the decimal digits of n >= 0
RECURSIVE NatStr(_)
NatStr(n) == IF n < 10 THEN <<Digits[n + 1]>> ELSE NatStr(n \div 10) \o <<Digits[(n % 10) + 1]>>

\* f'{Id}'
IdStr(n) == IF n < 0 THEN <<"-">> \o NatStr(0 - n) ELSE NatStr(n)

Chars(kind) == IF kind = "post" THEN <<"p", "o", "s", "t">> ELSE <<"u", "s", "e", "r">>

\* sub('[^a-z0-9]+', '-', text[:80].lower()).strip('-') or f'{kind}{id}'
SlugOf(text, kind, id) ==
    LET s == Strip(ReSub(Lower(Take(text, TitleCut))))
    IN  IF s # <<>> THEN s ELSE Chars(kind) \o IdStr(id)

\* k1 < k2 for two tuples of integers of the same length
KeyLess(k1, k2) ==
    \E i \in DOMAIN k1 : k1[i] < k2[i] /\ \A j \in 1 .. i - 1 : k1[j] = k2[j]

\* the place of one decorated item in a list already sorted: behind every item
\* whose key is not greater (the sort is stable)
RECURSIVE InsertSorted(_, _)
InsertSorted(x, s) ==
    IF s = <<>> THEN <<x>>
    ELSE IF KeyLess(x.key, Head(s).key) THEN <<x>> \o s
    ELSE <<Head(s)>> \o InsertSorted(x, Tail(s))

\* list.sort(key=...) and sorted(..., key=...) on items decorated with their
\* key, [key |-> tuple, item |-> Id]: a stable sort by ascending key
RECURSIVE StableSort(_)
StableSort(s) ==
    IF s = <<>> THEN <<>>
    ELSE InsertSorted(s[Len(s)], StableSort(SubSeq(s, 1, Len(s) - 1)))

Items(s) == [i \in DOMAIN s |-> s[i].item]

(***************************************************************************)
(* The loaded tables.  A Posts row carries the fields the code reads that  *)
(* vary here; its Title, Body, Tags and OwnerUserId follow from its Id.    *)
(***************************************************************************)
PostRow(id, type, score, parent, accepted) ==
    [Id |-> id, PostTypeId |-> type, Score |-> score,
     ParentId |-> parent, AcceptedAnswerId |-> accepted]

TitleOf(id) ==
    IF id = 1 THEN <<"A", " ", "?", "b">>
    ELSE IF id = 2 THEN <<"?", "!">>
    ELSE <<"c", "-">>

BodyOf(id) == <<"<", "p", ">", CR, IdStr(id)[1]>>

TagsOf(id) == IF id = 1 THEN <<"foo", "bar">> ELSE <<"foo">>

\* hasattr(post, 'OwnerUserId'): post 1 has no owner, the others are user 7's
OwnerUserIdOf(id) == IF id = 1 THEN {} ELSE {7}

DisplayNameOf(u) == IF u = COMMUNITY THEN <<"C", "o", "m">> ELSE <<"A", "l">>

\* hasattr(user, 'AccountId')
AccountIdOf(u) == IF u = COMMUNITY THEN {} ELSE {70}

Scores == 0 .. MaxScore

OptionalId == {{}} \cup {{i} : i \in PostIds}

QuestionRowsOf(ids, scores, accepted) ==
    {PostRow(id, QUESTION, s, {}, a) : id \in ids, s \in scores, a \in accepted}

AnswerRowsOf(ids, scores, parents) ==
    {PostRow(id, ANSWER, s, {p}, {}) : id \in ids, s \in scores, p \in parents}

\* a post that is neither a question nor an answer (a tag wiki)
OtherRowsOf(ids) == {PostRow(id, 4, 0, {}, {}) : id \in ids}

\* the tables of at most n rows, no two rows with the same Id
TablesOf(rows, n) ==
    UNION {{t \in [1 .. k -> rows] : \A i, j \in 1 .. k : t[i].Id = t[j].Id => i = j}
           : k \in 0 .. n}

AllRows == QuestionRowsOf(PostIds, Scores, OptionalId)
           \cup AnswerRowsOf(PostIds, Scores, PostIds)
           \cup OtherRowsOf(PostIds)

PostTables == TablesOf(AllRows, Cardinality(PostIds))

\* question 4 first, then up to three answers to it, in any order of their Ids
ThreadTables ==
    {<<PostRow(4, QUESTION, 0, {}, a)>> \o t :
        a \in OptionalId, t \in TablesOf(AnswerRowsOf(PostIds, Scores, {4}), Cardinality(PostIds))}

FewTables ==
    {<<>>,
     <<PostRow(1, QUESTION, 0, {}, {})>>,
     <<PostRow(1, QUESTION, 0, {}, {2}), PostRow(2, ANSWER, 0, {1}, {})>>,
     <<PostRow(3, ANSWER, 1, {2}, {}), PostRow(2, QUESTION, 1, {}, {})>>,
     <<PostRow(2, QUESTION, 0, {}, {}), PostRow(3, 4, 0, {}, {})>>}

PostsFile(table) == [Posts |-> {table}, PostsWithDeleted |-> {}]

Kept(row) == [row |-> row, DeletionDate |-> {}]

Deleted(row) == [row |-> row, DeletionDate |-> {"2015-06-01"}]

DeletedFile(table) == [Posts |-> {}, PostsWithDeleted |-> {table}]

\* a few dumps, some without Posts.jsonl
FewDumps ==
    {PostsFile(t) : t \in FewTables}
    \cup {DeletedFile(<<Kept(PostRow(1, QUESTION, 0, {}, {2})), Deleted(PostRow(2, ANSWER, 0, {1}, {}))>>),
          DeletedFile(<<Deleted(PostRow(1, QUESTION, 0, {}, {})), Kept(PostRow(2, ANSWER, 0, {1}, {}))>>),
          DeletedFile(<<Kept(PostRow(2, QUESTION, 1, {}, {})), Deleted(PostRow(3, 4, 0, {}, {}))>>),
          [Posts |-> {}, PostsWithDeleted |-> {}]}

Texts == {<<"x", CR, LF, CR, "y">>, <<" ", "[", "a", "]", "[", "1", "]">>}

\* PostHistoryTypeId: 1 is "initial title", 2, 5, 8 are the body events
HistoryTypes == {1, 2, 5, 8}

Revision(post, type, text) == [PostId |-> post, PostHistoryTypeId |-> type, Text |-> text]

Revisions == {Revision(p, t, x) : p \in PostIds, t \in HistoryTypes, x \in Texts}

Histories == UNION {[1 .. k -> Revisions] : k \in 0 .. MaxHist}

FewHistories == {<<>>, <<Revision(1, 5, <<"x", CR, LF, CR, "y">>)>>}

UserTables == {{COMMUNITY, 7}, {COMMUNITY}, {7}}

(***************************************************************************)
(* Views of the tables the code builds once (lines 197-200).               *)
(***************************************************************************)
IsQuestion(p) == p.PostTypeId = QUESTION

IsAnswer(p) == p.PostTypeId = ANSWER

\* Questions.values() and Answers.values(): in the order of Posts
QuestionRows == SelectSeq(Posts, IsQuestion)

AnswerRows == SelectSeq(Posts, IsAnswer)

PostIdsLoaded == {Posts[i].Id : i \in DOMAIN Posts}

QuestionIds == {Posts[i].Id : i \in {j \in DOMAIN Posts : IsQuestion(Posts[j])}}

AnswerIds == {Posts[i].Id : i \in {j \in DOMAIN Posts : IsAnswer(Posts[j])}}

\* Posts[id]
PostById(id) == Posts[CHOOSE i \in DOMAIN Posts : Posts[i].Id = id]

ScoreOf(id) == PostById(id).Score

(***************************************************************************)
(* Control: the loops of dump_markdown_from_json_lines in program order.   *)
(* A loop over an empty sequence falls through to the next one.            *)
(***************************************************************************)
NextPhase(phase) ==
    CASE phase = "questions" -> "answers"
      [] phase = "answers" -> "users"
      [] phase = "users" -> "history"
      [] phase = "history" -> "pages"
      [] phase = "pages" -> "index"
      [] phase = "index" -> "done"

PhaseLen(phase) ==
    CASE phase = "questions" -> Len(QuestionRows)
      [] phase = "answers" -> Len(AnswerRows)
      [] phase = "history" -> Len(PostHistory)
      [] phase = "pages" -> Len(QuestionRows)
      [] OTHER -> 1

\* the loop and position that run after position i - 1 of `phase`
RECURSIVE Goto(_, _)
Goto(phase, i) ==
    IF phase = "done" \/ i <= PhaseLen(phase) THEN <<phase, i>>
    ELSE Goto(NextPhase(phase), 1)

Continue(phase, i) == pc' = Goto(phase, i)[1] /\ idx' = Goto(phase, i)[2]

\* an exception nothing catches: KeyError(key), raised in the loop pc names
Abort(exception, key) ==
    /\ pc' = "aborted"
    /\ idx' = idx
    /\ fault' = <<[exception |-> exception, key |-> key, at |-> pc]>>

Extend(f, k, v) == [x \in DOMAIN f \cup {k} |-> IF x = k THEN v ELSE f[x]]

(***************************************************************************)
(* Lines 176-186: the tables.  Posts.jsonl when load_table('Posts')        *)
(* succeeds, else the rows of PostsWithDeleted.jsonl without DeletionDate. *)
(***************************************************************************)
NotDeleted(row) == row.DeletionDate = {}

WithoutDeletionDate(table) ==
    LET kept == SelectSeq(table, NotDeleted) IN [i \in DOMAIN kept |-> kept[i].row]

LoadTables ==
    /\ pc = "load"
    /\ IF dump.Posts # {}
       THEN /\ Posts' = (CHOOSE t \in dump.Posts : TRUE)
            /\ pc' = "partition"
            /\ UNCHANGED <<idx, fault>>
       ELSE IF dump.PostsWithDeleted # {}
       THEN /\ Posts' = WithoutDeletionDate(CHOOSE t \in dump.PostsWithDeleted : TRUE)
            /\ pc' = "partition"
            /\ UNCHANGED <<idx, fault>>
       ELSE /\ Abort("FileNotFoundError", "PostsWithDeleted")
            /\ UNCHANGED Posts
    /\ UNCHANGED <<dump, AllUsers, PostHistory, Users, Owner, BodySource, QAnswers, Slug, Path,
                   AcceptedAnswer, Tags, Question, IsAccepted, UserSlug, UserUrl,
                   errorLog, files>>
    /\ UNCHANGED slugVars

(***************************************************************************)
(* Lines 194-200: Users = {-1: AllUsers[-1]} and the Questions / Answers   *)
(* partition (QuestionRows, AnswerRows).                                   *)
(***************************************************************************)
Partition ==
    /\ pc = "partition"
    /\ IF COMMUNITY \in AllUsers
       THEN /\ Users' = {COMMUNITY}
            /\ pc' = "posts"
            /\ UNCHANGED <<idx, fault>>
       ELSE /\ Abort("KeyError", COMMUNITY)
            /\ UNCHANGED Users
    /\ UNCHANGED <<dump, AllUsers, Posts, PostHistory, Owner, BodySource, QAnswers, Slug, Path,
                   AcceptedAnswer, Tags, Question, IsAccepted, UserSlug, UserUrl,
                   errorLog, files>>
    /\ UNCHANGED slugVars

(***************************************************************************)
(* Lines 204-211: for post in Posts.values(): Owner, Edited, BodySource.   *)
(* The loop runs to its end, or to the first post whose OwnerUserId is no  *)
(* key of AllUsers.                                                        *)
(***************************************************************************)
OwnerOf(id) == IF OwnerUserIdOf(id) = {} THEN COMMUNITY ELSE CHOOSE u \in OwnerUserIdOf(id) : TRUE

EnrichPosts ==
    /\ pc = "posts"
    /\ LET bad == {i \in DOMAIN Posts : ~(OwnerUserIdOf(Posts[i].Id) \subseteq AllUsers)}
           done == IF bad = {} THEN DOMAIN Posts
                   ELSE {i \in DOMAIN Posts : \A j \in bad : i < j}
           ids == {Posts[i].Id : i \in done}
       IN  /\ Owner' = [id \in ids |-> OwnerOf(id)]
           /\ BodySource' = [id \in ids |-> BodyOf(id)]
           /\ Users' = Users \cup {OwnerOf(id) : id \in ids}
           /\ IF bad = {}
              THEN Continue("questions", 1) /\ UNCHANGED fault
              ELSE Abort("KeyError", OwnerOf(Posts[CHOOSE i \in bad : \A j \in bad : i <= j].Id))
    /\ UNCHANGED <<dump, AllUsers, Posts, PostHistory, QAnswers, Slug, Path,
                   AcceptedAnswer, Tags, Question, IsAccepted, UserSlug, UserUrl,
                   errorLog, files>>
    /\ UNCHANGED slugVars

(***************************************************************************)
(* Lines 213-227: for question in Questions.values().                      *)
(***************************************************************************)
\* Answers.get(question.AcceptedAnswerId), looked up among all posts instead
ResolveAcceptedAnyPost(q) == {a \in q.AcceptedAnswerId : a \in PostIdsLoaded}

\* Answers.get(question.AcceptedAnswerId), or None without the attribute
ResolveAccepted(q) == {a \in q.AcceptedAnswerId : a \in AnswerIds}

QuestionPath(id, slug) == <<"questions", IdStr(id), slug>>

RECURSIVE AddTags(_, _, _)
AddTags(tags, names, id) ==
    IF names = <<>> THEN tags
    ELSE AddTags(Extend(tags, Head(names),
                        IF Head(names) \in DOMAIN tags
                        THEN Append(tags[Head(names)], id) ELSE <<id>>),
                 Tail(names), id)

EnrichQuestion ==
    /\ pc = "questions"
    /\ LET q == QuestionRows[idx]
           slug == SlugOf(TitleOf(q.Id), "post", q.Id)
       IN  /\ QAnswers' = Extend(QAnswers, q.Id, <<>>)
           /\ Slug' = Extend(Slug, q.Id, slug)
           /\ Path' = Extend(Path, q.Id, QuestionPath(q.Id, slug))
           /\ AcceptedAnswer' = Extend(AcceptedAnswer, q.Id, ResolveAccepted(q))
           /\ errorLog' = IF q.AcceptedAnswerId # {} /\ ResolveAccepted(q) = {}
                          THEN Append(errorLog, [question |-> q.Id,
                                                 AcceptedAnswerId |-> q.AcceptedAnswerId])
                          ELSE errorLog
           /\ Tags' = AddTags(Tags, TagsOf(q.Id), q.Id)
    /\ Continue("questions", idx + 1)
    /\ UNCHANGED <<dump, AllUsers, Posts, PostHistory, Users, Owner, BodySource,
                   Question, IsAccepted, UserSlug, UserUrl, files, fault>>
    /\ UNCHANGED slugVars

(***************************************************************************)
(* Lines 229-235: for answer in Answers.values().                          *)
(***************************************************************************)
\* answer == question.AcceptedAnswer, taken against every question's accepted answer
IsAcceptedAnywhere(a, q) == \E k \in DOMAIN AcceptedAnswer : AcceptedAnswer[k] = {a.Id}

\* answer == question.AcceptedAnswer: SimpleNamespace compares by attributes,
\* Id among them, and no two rows of Answers share an Id
IsAcceptedOf(a, q) == AcceptedAnswer[q] = {a.Id}

ByScore(ids) == [i \in DOMAIN ids |-> [key |-> <<0 - ScoreOf(ids[i])>>, item |-> ids[i]]]

\* question.Answers.append(answer) without the sort
AppendUnsorted(answers, a) == Append(answers, a)

\* question.Answers.append(answer); question.Answers.sort(key=lambda a: -a.Score)
AppendAnswer(answers, a) == Items(StableSort(ByScore(Append(answers, a))))

\* the loop body with a dangling answer skipped instead of looked up
EnrichAnswerSkipDangling ==
    /\ pc = "answers"
    /\ LET a == AnswerRows[idx]
           q == CHOOSE p \in a.ParentId : TRUE
       IN  IF q \in QuestionIds
           THEN /\ Question' = Extend(Question, a.Id, q)
                /\ IsAccepted' = Extend(IsAccepted, a.Id, IsAcceptedOf(a, q))
                /\ QAnswers' = [QAnswers EXCEPT ![q] = AppendAnswer(@, a.Id)]
                /\ Path' = Extend(Path, a.Id, QuestionPath(q, Slug[q]) \o <<"#answer-", IdStr(a.Id)>>)
           ELSE UNCHANGED <<Question, IsAccepted, QAnswers, Path>>
    /\ Continue("answers", idx + 1)
    /\ UNCHANGED <<dump, AllUsers, Posts, PostHistory, Users, Owner, BodySource, Slug,
                   AcceptedAnswer, Tags, UserSlug, UserUrl, errorLog, files, fault>>
    /\ UNCHANGED slugVars

EnrichAnswer ==
    /\ pc = "answers"
    /\ LET a == AnswerRows[idx]
           q == CHOOSE p \in a.ParentId : TRUE
       IN  IF q \in QuestionIds
           THEN /\ Question' = Extend(Question, a.Id, q)
                /\ IsAccepted' = Extend(IsAccepted, a.Id, IsAcceptedOf(a, q))
                /\ QAnswers' = [QAnswers EXCEPT ![q] = AppendAnswer(@, a.Id)]
                /\ Path' = Extend(Path, a.Id, QuestionPath(q, Slug[q]) \o <<"#answer-", IdStr(a.Id)>>)
                /\ Continue("answers", idx + 1)
                /\ UNCHANGED fault
           ELSE /\ Abort("KeyError", q)
                /\ UNCHANGED <<Question, IsAccepted, QAnswers, Path>>
    /\ UNCHANGED <<dump, AllUsers, Posts, PostHistory, Users, Owner, BodySource, Slug,
                   AcceptedAnswer, Tags, UserSlug, UserUrl, errorLog, files>>
    /\ UNCHANGED slugVars

(***************************************************************************)
(* Lines 237-242: for user in Users.values(): Slug and Url.                *)
(***************************************************************************)
UrlOf(u, slug) ==
    IF AccountIdOf(u) # {}
    THEN <<"https://stackexchange.com/users", IdStr(CHOOSE a \in AccountIdOf(u) : TRUE), slug>>
    ELSE <<"https://stackexchange.com/users", IdStr(-1), IdStr(u) \o <<"-">> \o slug>>

EnrichUsers ==
    /\ pc = "users"
    /\ UserSlug' = [u \in Users |-> SlugOf(DisplayNameOf(u), "user", u)]
    /\ UserUrl' = [u \in Users |-> UrlOf(u, SlugOf(DisplayNameOf(u), "user", u))]
    /\ Continue("history", 1)
    /\ UNCHANGED <<dump, AllUsers, Posts, PostHistory, Users, Owner, BodySource, QAnswers, Slug,
                   Path, AcceptedAnswer, Tags, Question, IsAccepted, errorLog, files, fault>>
    /\ UNCHANGED slugVars

(***************************************************************************)
(* Lines 246-253: for revision in PostHistory.jsonl.                       *)
(***************************************************************************)
\* revision.PostHistoryTypeId in (2, 5, 8)
AffectsBody(revision) == revision.PostHistoryTypeId \in {2, 5, 8}

\* the loop body with a revision of an unknown post skipped instead of looked up
ApplyRevisionSkipUnknown ==
    /\ pc = "history"
    /\ LET revision == PostHistory[idx]
       IN  IF AffectsBody(revision) /\ revision.PostId \in PostIdsLoaded
           THEN BodySource' = [BodySource EXCEPT ![revision.PostId] = NormalizeNewlines(revision.Text)]
           ELSE UNCHANGED BodySource
    /\ Continue("history", idx + 1)
    /\ UNCHANGED <<dump, AllUsers, Posts, PostHistory, Users, Owner, QAnswers, Slug, Path,
                   AcceptedAnswer, Tags, Question, IsAccepted, UserSlug, UserUrl,
                   errorLog, files, fault>>
    /\ UNCHANGED slugVars

ApplyRevision ==
    /\ pc = "history"
    /\ LET revision == PostHistory[idx]
       IN  IF ~AffectsBody(revision)
           THEN Continue("history", idx + 1) /\ UNCHANGED <<BodySource, fault>>
           ELSE IF revision.PostId \in PostIdsLoaded
           THEN /\ BodySource' = [BodySource EXCEPT
                                    ![revision.PostId] = NormalizeNewlines(revision.Text)]
                /\ Continue("history", idx + 1)
                /\ UNCHANGED fault
           ELSE Abort("KeyError", revision.PostId) /\ UNCHANGED BodySource
    /\ UNCHANGED <<dump, AllUsers, Posts, PostHistory, Users, Owner, QAnswers, Slug, Path,
                   AcceptedAnswer, Tags, Question, IsAccepted, UserSlug, UserUrl,
                   errorLog, files>>
    /\ UNCHANGED slugVars

(***************************************************************************)
(* Lines 259-293: one page per question.                                   *)
(***************************************************************************)
ByScoreAndId(ids) ==
    [i \in DOMAIN ids |-> [key |-> <<0 - ScoreOf(ids[i]), ids[i]>>, item |-> ids[i]]]

ById(ids) == [i \in DOMAIN ids |-> [key |-> <<ids[i]>>, item |-> ids[i]]]

\* the answers of a page in the order question.Answers already has
PageAnswersAsKept(q) == QAnswers[q]

\* sorted(question.Answers, key=lambda a: (-a.Score, a.Id))
PageAnswers(q) == Items(StableSort(ByScoreAndId(QAnswers[q])))

OwnerLine(id) == <<DisplayNameOf(Owner[id]), UserUrl[Owner[id]]>>

\* answer.BodySource unless it holds both '][' and ' [', else answer.Body
AnswerText(a) ==
    IF Contains(<<"]", "[">>, BodySource[a]) /\ Contains(<<" ", "[">>, BodySource[a])
    THEN BodyOf(a) ELSE BodySource[a]

AnswerBlock(a) == [Id |-> a, Owner |-> OwnerLine(a), Score |-> ScoreOf(a), Text |-> AnswerText(a)]

PageOf(q) ==
    [Title |-> TitleOf(q), Owner |-> OwnerLine(q), Tags |-> TagsOf(q), Score |-> ScoreOf(q),
     Text |-> BodySource[q],
     Answers |-> [i \in DOMAIN PageAnswers(q) |-> AnswerBlock(PageAnswers(q)[i])],
     NoAnswers |-> QAnswers[q] = <<>>]

PageFile(q) == Path[q] \o <<".md">>

WritePage ==
    /\ pc = "pages"
    /\ LET q == QuestionRows[idx].Id
       IN  files' = Extend(files, PageFile(q), PageOf(q))
    /\ Continue("pages", idx + 1)
    /\ UNCHANGED <<dump, AllUsers, Posts, PostHistory, Users, Owner, BodySource, QAnswers, Slug,
                   Path, AcceptedAnswer, Tags, Question, IsAccepted, UserSlug, UserUrl,
                   errorLog, fault>>
    /\ UNCHANGED slugVars

(***************************************************************************)
(* Lines 297-300: questions/index.md.                                      *)
(***************************************************************************)
QuestionIdSeq == [i \in DOMAIN QuestionRows |-> QuestionRows[i].Id]

\* the questions in ascending Id
IndexOrderById == Items(StableSort(ById(QuestionIdSeq)))

\* sorted(Questions.values(), key=lambda q: (-q.Score, q.Id))
IndexOrder == Items(StableSort(ByScoreAndId(QuestionIdSeq)))

IndexEntry(q) == [Title |-> TitleOf(q), Link |-> <<"..">> \o Path[q]]

IndexFile == <<"questions", "index.md">>

WriteIndex ==
    /\ pc = "index"
    /\ files' = Extend(files, IndexFile,
                       [Heading |-> "All Questions",
                        Entries |-> [i \in DOMAIN IndexOrder |-> IndexEntry(IndexOrder[i])]])
    /\ Continue("index", 2)
    /\ UNCHANGED <<dump, AllUsers, Posts, PostHistory, Users, Owner, BodySource, QAnswers, Slug,
                   Path, AcceptedAnswer, Tags, Question, IsAccepted, UserSlug, UserUrl,
                   errorLog, fault>>
    /\ UNCHANGED slugVars

(***************************************************************************)
(* The slug rule of lines 216 and 238 on its own: applied to a text, then  *)
(* to its own result.                                                      *)
(***************************************************************************)
ApplySlug ==
    /\ pc = "slug"
    /\ slug1' = SlugOf(title, slugKind, slugId)
    /\ pc' = "slugged"
    /\ UNCHANGED <<title, slugId, slugKind, slug2>>
    /\ UNCHANGED <<idx, dump, AllUsers, Posts, PostHistory, Users, Owner, BodySource,
                   QAnswers, Slug, Path, AcceptedAnswer, Tags, Question, IsAccepted,
                   UserSlug, UserUrl, errorLog, files, fault>>

ApplySlugAgain ==
    /\ pc = "slugged"
    /\ slug2' = SlugOf(slug1, slugKind, slugId)
    /\ pc' = "reslugged"
    /\ UNCHANGED <<title, slugId, slugKind, slug1>>
    /\ UNCHANGED <<idx, dump, AllUsers, Posts, PostHistory, Users, Owner, BodySource,
                   QAnswers, Slug, Path, AcceptedAnswer, Tags, Question, IsAccepted,
                   UserSlug, UserUrl, errorLog, files, fault>>

(***************************************************************************)
(* Specifications.                                                         *)
(***************************************************************************)
Empty == <<>>

Start(users, dumps, history) ==
    /\ pc = "load"
    /\ idx = 1
    /\ dump \in dumps
    /\ AllUsers \in users
    /\ Posts = <<>>
    /\ PostHistory \in history
    /\ Users = {}
    /\ Owner = Empty
    /\ BodySource = Empty
    /\ QAnswers = Empty
    /\ Slug = Empty
    /\ Path = Empty
    /\ AcceptedAnswer = Empty
    /\ Tags = Empty
    /\ Question = Empty
    /\ IsAccepted = Empty
    /\ UserSlug = Empty
    /\ UserUrl = Empty
    /\ errorLog = <<>>
    /\ files = Empty
    /\ fault = <<>>
    /\ title = <<>>
    /\ slugId = 0
    /\ slugKind = "post"
    /\ slug1 = <<>>
    /\ slug2 = <<>>

\* every Posts table with an empty PostHistory, and a few Posts tables under
\* every Users table, with no history or one revision
Init ==
    \/ Start({{COMMUNITY, 7}}, {PostsFile(t) : t \in PostTables \cup ThreadTables}, {<<>>})
    \/ Start(UserTables, FewDumps, FewHistories)

\* every PostHistory file, over a few dumps
HistInit == Start({{COMMUNITY, 7}}, FewDumps, Histories)

\* the characters of the explored titles and display names: lowercase, uppercase,
\* digit, hyphen, punctuation, space, and the two characters str.lower() treats
\* specially
SlugAlphabet == {"a", "Z", "7", "-", "?", " ", "U+0130", "U+212A"}

Repeat(c, n) == [i \in 1 .. n |-> c]

SlugTexts ==
    {Repeat(c, n) \o t : c \in SlugAlphabet, n \in 0 .. MaxRep,
                         t \in UNION {[1 .. k -> SlugAlphabet] : k \in 0 .. MaxTail}}

SlugInit ==
    /\ pc = "slug"
    /\ idx = 1
    /\ dump = [Posts |-> {}, PostsWithDeleted |-> {}]
    /\ AllUsers = {}
    /\ Posts = <<>>
    /\ PostHistory = <<>>
    /\ Users = {}
    /\ Owner = Empty
    /\ BodySource = Empty
    /\ QAnswers = Empty
    /\ Slug = Empty
    /\ Path = Empty
    /\ AcceptedAnswer = Empty
    /\ Tags = Empty
    /\ Question = Empty
    /\ IsAccepted = Empty
    /\ UserSlug = Empty
    /\ UserUrl = Empty
    /\ errorLog = <<>>
    /\ files = Empty
    /\ fault = <<>>
    /\ title \in SlugTexts
    /\ \E k \in {<<"post", 12>>, <<"user", COMMUNITY>>} : slugKind = k[1] /\ slugId = k[2]
    /\ slug1 = <<>>
    /\ slug2 = <<>>

SlugNext ==
    \/ ApplySlug
    \/ ApplySlugAgain

SlugSpec == SlugInit /\ [][SlugNext]_vars

Next ==
    \/ LoadTables
    \/ Partition
    \/ EnrichPosts
    \/ EnrichQuestion
    \/ EnrichAnswer
    \/ EnrichUsers
    \/ ApplyRevision
    \/ WritePage
    \/ WriteIndex

Spec == Init /\ [][Next]_vars

HistSpec == HistInit /\ [][Next]_vars

(***************************************************************************)
(* Vocabulary of the properties.                                           *)
(***************************************************************************)
Min(S) == CHOOSE x \in S : \A y \in S : x <= y

Max(S) == CHOOSE x \in S : \A y \in S : y <= x

Faulted(phase) == pc = "aborted" /\ fault[1].at = phase

\* the answers loop has run to its end
AfterAnswers == pc \in {"users", "history", "pages", "index", "done"} \/ Faulted("history")

Rendering == pc \in {"pages", "index", "done"}

ParentOf(a) == CHOOSE p \in PostById(a).ParentId : TRUE

\* positions in Answers of the answers whose ParentId is no loaded question
DanglingAnswers == {i \in DOMAIN AnswerRows : ~(AnswerRows[i].ParentId \subseteq QuestionIds)}

\* questions whose AcceptedAnswerId is the Id of no loaded answer
DanglingAccepted ==
    {q \in QuestionIds : PostById(q).AcceptedAnswerId # {}
                         /\ ~(PostById(q).AcceptedAnswerId \subseteq AnswerIds)}

BodyEvents == {2, 5, 8}

\* positions in PostHistory of the body events of post p
BodyEventsOf(p) ==
    {i \in DOMAIN PostHistory : PostHistory[i].PostId = p
                                /\ PostHistory[i].PostHistoryTypeId \in BodyEvents}

\* positions in PostHistory of the body events of posts that are not loaded
UnknownBodyEvents ==
    {i \in DOMAIN PostHistory : PostHistory[i].PostId \notin PostIdsLoaded
                                /\ PostHistory[i].PostHistoryTypeId \in BodyEvents}

\* text with every \r\n and every bare \r replaced by \n, in one pass
RECURSIVE UnixNewlines(_)
UnixNewlines(text) ==
    IF text = <<>> THEN <<>>
    ELSE IF Head(text) = CR /\ Len(text) > 1 /\ text[2] = LF THEN <<LF>> \o UnixNewlines(Drop(text, 2))
    ELSE IF Head(text) = CR THEN <<LF>> \o UnixNewlines(Tail(text))
    ELSE <<Head(text)>> \o UnixNewlines(Tail(text))

\* the BodySource of post p once the first n lines of PostHistory are applied
SourceAfter(p, n) ==
    LET seen == {i \in BodyEventsOf(p) : i <= n}
    IN  IF seen = {} THEN BodyOf(p) ELSE UnixNewlines(PostHistory[Max(seen)].Text)

\* a before b on a page or in the index: higher Score, or equal Score and lower Id
RankedBefore(a, b) ==
    ScoreOf(a) > ScoreOf(b) \/ (ScoreOf(a) = ScoreOf(b) /\ a < b)

(***************************************************************************)
(* C1.  A loaded answer whose ParentId is not the Id of a loaded question  *)
(* aborts the run during enrichment: the run is in an enrichment loop, at  *)
(* or before that answer, or has faulted there; the fault of the answers   *)
(* loop is the KeyError of the first such answer; and no file is written:  *)
(* no run completes with such an answer missing from the pages.            *)
(***************************************************************************)
C1_DanglingParentAborts ==
    \A i \in DanglingAnswers :
        /\ pc \in {"partition", "posts", "questions", "answers", "aborted"}
        /\ pc = "answers" => idx \in 1 .. i
        /\ files = Empty
        /\ pc = "aborted" => fault[1].at \in {"partition", "posts", "answers"}
        /\ Faulted("answers") =>
              /\ idx = Min(DanglingAnswers)
              /\ fault[1].exception = "KeyError"
              /\ AnswerRows[idx].ParentId = {fault[1].key}

\* the second answer's parent is a loaded post that is no question; the first
\* answer was linked before the fault
C1_Witness ==
    /\ Faulted("answers")
    /\ idx = 2
    /\ Question # Empty
    /\ AnswerRows[2].ParentId \subseteq PostIdsLoaded \ QuestionIds

(***************************************************************************)
(* C2.  Once the answers loop is over, every answer A with parent Q has    *)
(* IsAccepted true iff Q carries an AcceptedAnswerId, it equals A.Id and   *)
(* that Id, looked up among the loaded answers, is A; at most one answer   *)
(* of a question is accepted, and none of a question without               *)
(* AcceptedAnswerId.                                                       *)
(***************************************************************************)
C2_IsAcceptedIffAcceptedAnswerId ==
    AfterAnswers =>
        /\ DOMAIN IsAccepted = AnswerIds
        /\ \A a \in AnswerIds :
              IsAccepted[a] <=>
                  /\ PostById(ParentOf(a)).AcceptedAnswerId # {}
                  /\ PostById(ParentOf(a)).AcceptedAnswerId = {a}
                  /\ \E i \in DOMAIN AnswerRows : AnswerRows[i].Id = a /\ AnswerRows[i] = PostById(a)
        /\ \A q \in QuestionIds :
              /\ Cardinality({a \in AnswerIds : ParentOf(a) = q /\ IsAccepted[a]}) <= 1
              /\ PostById(q).AcceptedAnswerId = {} =>
                    \A a \in AnswerIds : ParentOf(a) = q => ~IsAccepted[a]

\* the run is over; a question has two answers, one accepted and one not
C2_Witness ==
    /\ pc = "done"
    /\ \E a, b \in AnswerIds :
          /\ a # b
          /\ ParentOf(a) = ParentOf(b)
          /\ IsAccepted[a]
          /\ ~IsAccepted[b]

(***************************************************************************)
(* C3.  Once the answers loop is over, the AcceptedAnswer of a question,   *)
(* when set, is in that question's Answers.                                *)
(***************************************************************************)
C3_AcceptedAnswerInAnswers ==
    AfterAnswers =>
        \A q \in QuestionIds : \A a \in AcceptedAnswer[q] : a \in Range(QAnswers[q])

(***************************************************************************)
(* C4.  While the pages are rendered, the BodySource of every loaded post  *)
(* is its Body when PostHistory holds no event of type 2, 5 or 8 for it,   *)
(* and else the Text of the last such event in file order with every \r\n  *)
(* and every bare \r replaced by \n.                                       *)
(***************************************************************************)
C4_BodySourceIsLastBodyEvent ==
    Rendering =>
        \A p \in PostIdsLoaded :
            IF BodyEventsOf(p) = {}
            THEN BodySource[p] = BodyOf(p)
            ELSE BodySource[p] = UnixNewlines(PostHistory[Max(BodyEventsOf(p))].Text)

\* rendering starts; one post has two body events, the last one with \r\n in
\* its Text and followed by an event of another type, and one post has none
C4_Witness ==
    /\ pc = "pages"
    /\ idx = 1
    /\ \E p \in PostIdsLoaded :
          /\ BodyEventsOf(p) = {1, 2}
          /\ Contains(<<CR, LF>>, PostHistory[2].Text)
          /\ PostHistory[1].Text # PostHistory[2].Text
    /\ \E p \in PostIdsLoaded : BodyEventsOf(p) = {} /\ BodySource[p] = BodyOf(p)

(***************************************************************************)
(* C5.  The answer blocks of a written page are the answers whose ParentId *)
(* is the question's Id, each once, by descending Score and, among equal   *)
(* Scores, ascending Id; the page of a question without answers has the    *)
(* "No Answers" notice and no block, and no other page has the notice.     *)
(***************************************************************************)
C5_PageAnswerBlocks ==
    \A q \in QuestionIds :
        (q \in DOMAIN Path /\ Path[q] \o <<".md">> \in DOMAIN files) =>
            LET page == files[Path[q] \o <<".md">>]
                mine == {a \in AnswerIds : PostById(a).ParentId = {q}}
            IN  /\ {page.Answers[i].Id : i \in DOMAIN page.Answers} = mine
                /\ Len(page.Answers) = Cardinality(mine)
                /\ \A i, j \in DOMAIN page.Answers :
                      i < j => RankedBefore(page.Answers[i].Id, page.Answers[j].Id)
                /\ page.NoAnswers <=> mine = {}

\* a page with three answers, not all of one Score; the question's Answers
\* list keeps two of equal Score in descending Id
C5_Witness ==
    /\ pc = "done"
    /\ \E q \in QuestionIds :
          LET page == files[Path[q] \o <<".md">>]
          IN  /\ Len(page.Answers) = 3
              /\ \E i, j \in DOMAIN QAnswers[q] :
                    /\ i < j
                    /\ QAnswers[q][i] > QAnswers[q][j]
                    /\ ScoreOf(QAnswers[q][i]) = ScoreOf(QAnswers[q][j])
              /\ ScoreOf(page.Answers[1].Id) > ScoreOf(page.Answers[3].Id)

(***************************************************************************)
(* C6.  A question whose AcceptedAnswerId is the Id of no loaded answer:   *)
(* its enrichment logs one error and leaves AcceptedAnswer None, every     *)
(* answer linked to it has IsAccepted false, the questions loop never      *)
(* faults, a later fault is the KeyError of a dangling ParentId or of a    *)
(* body event of an unknown post, and a run that finishes has written the  *)
(* question's page.                                                        *)
(***************************************************************************)
C6_DanglingAcceptedIsLoggedNotFatal ==
    \A q \in DanglingAccepted :
        /\ q \in DOMAIN AcceptedAnswer =>
              /\ AcceptedAnswer[q] = {}
              /\ Cardinality({i \in DOMAIN errorLog : errorLog[i].question = q}) = 1
              /\ \A i \in DOMAIN errorLog :
                    errorLog[i].question = q =>
                        errorLog[i].AcceptedAnswerId = PostById(q).AcceptedAnswerId
        /\ \A a \in DOMAIN IsAccepted : Question[a] = q => ~IsAccepted[a]
        /\ ~Faulted("questions")
        /\ (pc = "aborted" /\ q \in DOMAIN AcceptedAnswer) =>
              \/ Faulted("answers") /\ DanglingAnswers # {}
              \/ Faulted("history") /\ UnknownBodyEvents # {}
        /\ pc = "done" =>
              /\ Path[q] \o <<".md">> \in DOMAIN files
              /\ files[Path[q] \o <<".md">>].Title = TitleOf(q)

\* the run is over and has written the page of a question that has two
\* answers and an AcceptedAnswerId that names no post
C6_Witness ==
    /\ pc = "done"
    /\ Len(errorLog) = 1
    /\ \E q \in DanglingAccepted :
          /\ PostById(q).AcceptedAnswerId \cap PostIdsLoaded = {}
          /\ Cardinality({a \in AnswerIds : Question[a] = q /\ ~IsAccepted[a]}) = 2
          /\ Len(files[Path[q] \o <<".md">>].Answers) = 2

(***************************************************************************)
(* C7.  In every state, every question's Answers list is in non-increasing *)
(* Score order and holds, each once, the answers processed so far whose    *)
(* ParentId is the question's Id.                                          *)
(***************************************************************************)
C7_AnswersKeptSorted ==
    \A q \in DOMAIN QAnswers :
        /\ \A i, j \in DOMAIN QAnswers[q] :
              i < j => ScoreOf(QAnswers[q][i]) >= ScoreOf(QAnswers[q][j])
        /\ Range(QAnswers[q]) = {a \in DOMAIN Question : PostById(a).ParentId = {q}}
        /\ Len(QAnswers[q]) = Cardinality(Range(QAnswers[q]))

\* in the middle of the answers loop, a question has two answers, the one
\* appended last in front
C7_Witness ==
    /\ pc = "answers"
    /\ \E q \in DOMAIN QAnswers :
          /\ Len(QAnswers[q]) = 2
          /\ \E i \in DOMAIN AnswerRows :
                /\ i < idx
                /\ AnswerRows[idx - 1].Id = QAnswers[q][1]
                /\ AnswerRows[i].Id = QAnswers[q][2]

(***************************************************************************)
(* C8.  The written index lists every loaded question once and nothing     *)
(* else, by descending Score and, among equal Scores, ascending Id, and    *)
(* each entry links to the Path questions/{Id}/{Slug} of the page written  *)
(* for its question.                                                       *)
(***************************************************************************)
C8_IndexListsEveryQuestion ==
    IndexFile \in DOMAIN files =>
        LET entries == files[IndexFile].Entries
        IN  /\ Len(entries) = Cardinality(QuestionIds)
            /\ \E order \in [DOMAIN entries -> QuestionIds] :
                  /\ \A i, j \in DOMAIN entries : i < j => RankedBefore(order[i], order[j])
                  /\ {order[i] : i \in DOMAIN entries} = QuestionIds
                  /\ \A i \in DOMAIN entries :
                        LET path == <<"questions", IdStr(order[i]), Slug[order[i]]>>
                        IN  /\ entries[i].Link = <<"..">> \o path
                            /\ entries[i].Title = TitleOf(order[i])
                            /\ path \o <<".md">> \in DOMAIN files
                            /\ files[path \o <<".md">>].Title = TitleOf(order[i])
                            /\ files[path \o <<".md">>].Score = ScoreOf(order[i])

\* an index of two questions next to a post that is no question; the question
\* that comes first in the table has the lower Score and comes last in the index
C8_Witness ==
    /\ pc = "done"
    /\ Len(files[IndexFile].Entries) = 2
    /\ Len(Posts) = 3
    /\ QuestionRows[1].Score < QuestionRows[2].Score
    /\ files[IndexFile].Entries[1].Title = TitleOf(QuestionRows[2].Id)

(***************************************************************************)
(* C9.  The slug rule applied to its own result returns it unchanged; its  *)
(* result is never empty and holds only a-z, 0-9 and single interior       *)
(* hyphens; a non-empty text without an alphanumeric character gets the    *)
(* fallback post{Id} / user{Id}.                                           *)
(***************************************************************************)
Alphanumeric == Range(AsciiUpper) \cup SlugClass \cup {"U+0130", "U+212A"}

WellFormedSlug(s) ==
    /\ s # <<>>
    /\ Range(s) \subseteq SlugClass \cup {"-"}
    /\ s[1] # "-"
    /\ s[Len(s)] # "-"
    /\ \A i \in 1 .. Len(s) - 1 : ~(s[i] = "-" /\ s[i + 1] = "-")

C9_SlugIdempotent ==
    pc = "reslugged" =>
        /\ slug2 = slug1
        /\ WellFormedSlug(slug1)
        /\ (title # <<>> /\ Range(title) \cap Alphanumeric = {}) =>
              slug1 = Chars(slugKind) \o IdStr(slugId)

(***************************************************************************)
(* C10.  PostHistory is applied line by line before anything is written:   *)
(* at line n of the loop every post's BodySource reflects the first n - 1  *)
(* lines; a body event of a post that is not loaded stops the run at that  *)
(* line with a KeyError and no file written; an event of another type for  *)
(* an unknown post does not.                                               *)
(***************************************************************************)
C10_HistoryBeforeRendering ==
    /\ files # Empty => Rendering
    /\ pc = "history" => \A p \in PostIdsLoaded : BodySource[p] = SourceAfter(p, idx - 1)
    /\ Rendering => \A p \in PostIdsLoaded : BodySource[p] = SourceAfter(p, Len(PostHistory))
    /\ \A i \in UnknownBodyEvents :
          /\ ~Rendering
          /\ pc = "history" => idx \in 1 .. i
    /\ Faulted("history") =>
          /\ idx = Min(UnknownBodyEvents)
          /\ fault[1].exception = "KeyError"
          /\ fault[1].key = PostHistory[idx].PostId
          /\ files = Empty
          /\ \A p \in PostIdsLoaded : BodySource[p] = SourceAfter(p, idx - 1)

\* the run faulted at the second line, a body event of a post that
\* PostsWithDeleted carries with a DeletionDate, after passing a title event of
\* the same post; there is a question, and no file
C10_Witness ==
    /\ Faulted("history")
    /\ idx = 2
    /\ PostHistory[1].PostId = PostHistory[2].PostId
    /\ PostHistory[1].PostHistoryTypeId \notin BodyEvents
    /\ dump.Posts = {}
    /\ \E t \in dump.PostsWithDeleted : \E i \in DOMAIN t :
          t[i].row.Id = PostHistory[2].PostId /\ t[i].DeletionDate # {}
    /\ QuestionIds # {}
    /\ files = Empty

====
